---- MODULE Spec2Model ----
(***************************************************************************)
(* Model of src/main.py: the Pub/Sub push handler pubsub_push, which       *)
(* decodes a Gmail change notification, fetches the mailbox's credentials  *)
(* from Bubble, reads the Gmail history since the notified historyId and   *)
(* enqueues one Cloud Task per added message.                              *)
(*                                                                         *)
(* Python values are modelled as follows.  A dict is a function from a     *)
(* set of key strings to values (a record); a list is a sequence; None, a  *)
(* str and an int are tagged records (JNone, JStr, JNum) so that values of *)
(* different Python types can be compared.  An exception that leaves the   *)
(* handler is recorded in exc and ends the invocation with pc = "raised".  *)
(***************************************************************************)
EXTENDS Integers, Sequences, FiniteSets, TLC

\* Bounds of the model.
NumInv == 2        \* handler invocations in flight
MaxRecords == 2    \* change records in a generated history window
MaxAdded == 2      \* messagesAdded sub-records in a generated change record

Invs == 1..NumInv

-----------------------------------------------------------------------------
\* Python values.

JNone == [t |-> "none", s |-> "", n |-> 0]
JStr(s) == [t |-> "str", s |-> s, n |-> 0]
JNum(n) == [t |-> "num", s |-> "", n |-> n]
\* A local variable that has not been assigned yet.
Unbound == [t |-> "unbound", s |-> "", n |-> 0]
EmptyObj == [k \in {} |-> k]

\* key in d
Has(d, k) == k \in DOMAIN d
\* d.get(k, default)
Get(d, k, default) == IF k \in DOMAIN d THEN d[k] ELSE default

\* Python truthiness of None, a str or an int: bool(v).
Truthy(v) ==
    CASE v.t = "none" -> FALSE
      [] v.t = "str" -> v.s # ""
      [] v.t = "num" -> v.n # 0
      [] OTHER -> FALSE

DigitChar(d) ==
    CASE d = 0 -> "0" [] d = 1 -> "1" [] d = 2 -> "2" [] d = 3 -> "3"
      [] d = 4 -> "4" [] d = 5 -> "5" [] d = 6 -> "6" [] d = 7 -> "7"
      [] d = 8 -> "8" [] OTHER -> "9"

RECURSIVE Decimal(_)
Decimal(n) == IF n < 10 THEN DigitChar(n) ELSE Decimal(n \div 10) \o DigitChar(n % 10)

\* str(v) of None, a str or a non-negative int.
Str(v) ==
    CASE v.t = "none" -> "None"
      [] v.t = "str" -> v.s
      [] OTHER -> Decimal(v.n)

SeqsUpTo(S, n) == UNION {[1..k -> S] : k \in 0..n}

-----------------------------------------------------------------------------
\* Inputs: push envelopes.

\* base64.b64decode(data).decode("utf-8") of the message.data strings the model
\* feeds in: the exception it raises ("" when none) and the decoded text.
B64DecodeUtf8(data) ==
    CASE data = "" -> [exc |-> "", raw |-> ""]
      [] data = "abc" -> [exc |-> "binascii.Error", raw |-> ""]
      [] data = "gA==" -> [exc |-> "UnicodeDecodeError", raw |-> ""]
      [] data = "ew==" -> [exc |-> "", raw |-> "{"]
      [] data = "W10=" -> [exc |-> "", raw |-> "[]"]
      [] data = "e30=" -> [exc |-> "", raw |-> "{}"]
      [] data = "eyJlbWFpbEFkZHJlc3MiOiJhQHguY29tIn0="
           -> [exc |-> "", raw |-> "{\"emailAddress\":\"a@x.com\"}"]
      [] data = "eyJoaXN0b3J5SWQiOjEwMH0="
           -> [exc |-> "", raw |-> "{\"historyId\":100}"]
      [] data = "eyJlbWFpbEFkZHJlc3MiOiIiLCJoaXN0b3J5SWQiOjEwMH0="
           -> [exc |-> "", raw |-> "{\"emailAddress\":\"\",\"historyId\":100}"]
      [] data = "eyJlbWFpbEFkZHJlc3MiOiJhQHguY29tIiwiaGlzdG9yeUlkIjoiIn0="
           -> [exc |-> "", raw |-> "{\"emailAddress\":\"a@x.com\",\"historyId\":\"\"}"]
      [] data = "eyJlbWFpbEFkZHJlc3MiOiJhQHguY29tIiwiaGlzdG9yeUlkIjoxMDB9"
           -> [exc |-> "", raw |-> "{\"emailAddress\":\"a@x.com\",\"historyId\":100}"]
      [] data = "eyJlbWFpbEFkZHJlc3MiOiJiQHguY29tIiwiaGlzdG9yeUlkIjoiNyJ9"
           -> [exc |-> "", raw |-> "{\"emailAddress\":\"b@x.com\",\"historyId\":\"7\"}"]
      [] OTHER -> [exc |-> "binascii.Error", raw |-> ""]

\* json.loads(raw) of those texts: the exception it raises ("" when none),
\* whether the value is a dict, and the dict.
JsonLoads(raw) ==
    CASE raw = "{}" -> [exc |-> "", isdict |-> TRUE, val |-> EmptyObj]
      [] raw = "[]" -> [exc |-> "", isdict |-> FALSE, val |-> EmptyObj]
      [] raw = "{\"emailAddress\":\"a@x.com\"}"
           -> [exc |-> "", isdict |-> TRUE, val |-> [emailAddress |-> JStr("a@x.com")]]
      [] raw = "{\"historyId\":100}"
           -> [exc |-> "", isdict |-> TRUE, val |-> [historyId |-> JNum(100)]]
      [] raw = "{\"emailAddress\":\"\",\"historyId\":100}"
           -> [exc |-> "", isdict |-> TRUE,
               val |-> [emailAddress |-> JStr(""), historyId |-> JNum(100)]]
      [] raw = "{\"emailAddress\":\"a@x.com\",\"historyId\":\"\"}"
           -> [exc |-> "", isdict |-> TRUE,
               val |-> [emailAddress |-> JStr("a@x.com"), historyId |-> JStr("")]]
      [] raw = "{\"emailAddress\":\"a@x.com\",\"historyId\":100}"
           -> [exc |-> "", isdict |-> TRUE,
               val |-> [emailAddress |-> JStr("a@x.com"), historyId |-> JNum(100)]]
      [] raw = "{\"emailAddress\":\"b@x.com\",\"historyId\":\"7\"}"
           -> [exc |-> "", isdict |-> TRUE,
               val |-> [emailAddress |-> JStr("b@x.com"), historyId |-> JStr("7")]]
      [] OTHER -> [exc |-> "JSONDecodeError", isdict |-> FALSE, val |-> EmptyObj]

\* The message.data strings of the envelopes fed to the handler.
DataStrings ==
    { "", "abc", "gA==", "ew==", "W10=", "e30=",
      "eyJlbWFpbEFkZHJlc3MiOiJhQHguY29tIn0=",
      "eyJoaXN0b3J5SWQiOjEwMH0=",
      "eyJlbWFpbEFkZHJlc3MiOiIiLCJoaXN0b3J5SWQiOjEwMH0=",
      "eyJlbWFpbEFkZHJlc3MiOiJhQHguY29tIiwiaGlzdG9yeUlkIjoiIn0=",
      "eyJlbWFpbEFkZHJlc3MiOiJhQHguY29tIiwiaGlzdG9yeUlkIjoxMDB9",
      "eyJlbWFpbEFkZHJlc3MiOiJiQHguY29tIiwiaGlzdG9yeUlkIjoiNyJ9" }

\* The envelopes request.json() may return: without message, with a message
\* without data, and with each of the data strings.
Envelopes ==
    { EmptyObj, [message |-> EmptyObj] }
        \cup { [message |-> [data |-> d]] : d \in DataStrings }

-----------------------------------------------------------------------------
\* Inputs: what the two services answer.

\* An answer to requests.post / requests.get: the transport failed (connection
\* error), the service never answers, or an HTTP response with a status and a
\* body that is JSON (then json is its value) or not.
TransportError == [kind |-> "transport", status |-> 0, isjson |-> FALSE, json |-> EmptyObj]
Silent == [kind |-> "silent", status |-> 0, isjson |-> FALSE, json |-> EmptyObj]

\* timeout=20 of the requests.post in fetch_creds_from_bubble, timeout=30 of the
\* requests.get in gmail_history.
CredsTimeout == 20
HistoryTimeout == 30

\* What requests does when the service never answers: with a timeout it raises
\* Timeout once the timeout has passed, without one it waits for ever.
Unanswered(timeout) == IF timeout > 0 THEN "Timeout" ELSE "hang"
HttpReply(status, isjson, json) ==
    [kind |-> "http", status |-> status, isjson |-> isjson, json |-> json]

\* Response.raise_for_status(): raises HTTPError for a 4xx or 5xx status.
RaisesForStatus(status) == status >= 400 /\ status < 600

\* Answers of the Bubble get-google-creds endpoint.
CredReplies ==
    { TransportError,
      Silent,
      HttpReply(500, FALSE, EmptyObj),
      HttpReply(200, FALSE, EmptyObj),
      HttpReply(200, TRUE, EmptyObj),
      HttpReply(200, TRUE, [response |-> EmptyObj]),
      HttpReply(200, TRUE, [response |-> [access_token |-> JStr("")]]),
      HttpReply(200, TRUE, [response |-> [access_token |-> JStr("tok"),
                                          refresh_token |-> JStr("ref")]]) }

\* Message identifiers of the generated history windows.
MessageIds == {"m1", "m2"}

Added(id) == [message |-> [id |-> JStr(id)]]
Record(added) == [messagesAdded |-> added]
Window(records) == [history |-> records]

\* Every window of at most MaxRecords change records, each adding at most
\* MaxAdded messages.
GeneratedWindows ==
    { Window(rs) :
        rs \in SeqsUpTo({ Record(as) : as \in SeqsUpTo({Added(m) : m \in MessageIds},
                                                        MaxAdded) },
                        MaxRecords) }

\* Windows of particular shapes: the same message in two of three records,
\* sub-records with an empty or a missing identifier, and responses that leave
\* out messagesAdded or history.
ShapedWindows ==
    { Window(<<Record(<<Added("m1")>>), Record(<<Added("m1")>>), Record(<<Added("m2")>>)>>),
      Window(<<Record(<<Added(""), Added("m1")>>)>>),
      Window(<<Record(<<[message |-> EmptyObj]>>), Record(<<EmptyObj, Added("m2")>>)>>),
      Window(<<EmptyObj>>),
      EmptyObj }

Windows == GeneratedWindows \cup ShapedWindows

\* Answers of the Gmail users.history.list endpoint: no answer, the error
\* statuses 404, 403 (with a JSON error body) and 500, a 3xx answer that
\* requests does not follow and whose body is a history, a 200 whose body is
\* not JSON, and a 200 with each of the windows.
HistoryReplies ==
    { TransportError,
      Silent,
      HttpReply(404, TRUE, EmptyObj),
      HttpReply(403, TRUE, [error |-> EmptyObj]),
      HttpReply(500, FALSE, EmptyObj),
      HttpReply(300, TRUE, Window(<<Record(<<Added("m1")>>)>>)),
      HttpReply(200, FALSE, EmptyObj) }
        \cup { HttpReply(200, TRUE, w) : w \in Windows }

-----------------------------------------------------------------------------
\* The functions of main.py.

\* What a segment of the handler ends in: it returns a status body, it raises,
\* or it goes on to the next outbound call.
Returns(status) == [pc |-> "done", result |-> [status |-> status], exc |-> ""]
Raises(exception) == [pc |-> "raised", result |-> EmptyObj, exc |-> exception]
GoesOn(next) == [pc |-> next, result |-> EmptyObj, exc |-> ""]

\* email = payload.get("emailAddress")
EmailOf(payload) == Get(payload, "emailAddress", JNone)
\* history_id = str(payload.get("historyId"))
HistoryIdOf(payload) == JStr(Str(Get(payload, "historyId", JNone)))
\* not email or not history_id
MissingFields(email, history_id) == ~Truthy(email) \/ ~Truthy(history_id)

\* raw = base64.b64decode(msg["data"]).decode("utf-8"); payload = json.loads(raw)
LoadPayload(data) ==
    LET decoded == B64DecodeUtf8(data) IN
    IF decoded.exc # "" THEN [exc |-> decoded.exc, isdict |-> FALSE, val |-> EmptyObj]
    ELSE JsonLoads(decoded.raw)

\* pubsub_push from the message to the credential lookup: the decoding of
\* message.data and the check of the payload's fields.
IntakeMessage(msg) ==
    IF ~Has(msg, "data") THEN Returns("missing-data")
    ELSE LET loaded == LoadPayload(msg["data"]) IN
         IF loaded.exc # "" THEN Raises(loaded.exc)
         ELSE IF ~loaded.isdict THEN Raises("AttributeError")
         ELSE IF MissingFields(EmailOf(loaded.val), HistoryIdOf(loaded.val))
              THEN Returns("missing-fields")
              ELSE GoesOn("creds")

\* Intake without the check for "message": envelope["message"] raises KeyError.
Intake_NoMessageCheck(envelope) ==
    IF ~Has(envelope, "message") THEN Raises("KeyError")
    ELSE IntakeMessage(envelope["message"])

\* pubsub_push from the envelope to the credential lookup.
Intake(envelope) ==
    IF ~Has(envelope, "message") THEN Returns("ignored")
    ELSE IntakeMessage(envelope["message"])

\* Whether the handler gets as far as reading the payload's fields, that is,
\* whether json.loads returned a dict.
HasPayload(envelope) ==
    /\ Has(envelope, "message")
    /\ Has(envelope["message"], "data")
    /\ LoadPayload(envelope["message"]["data"]).exc = ""
    /\ LoadPayload(envelope["message"]["data"]).isdict

\* The payload json.loads returned.
PayloadOf(envelope) == LoadPayload(envelope["message"]["data"]).val

\* fetch_creds_from_bubble(email), given Bubble's answer: the exception it
\* raises ("" when none) and the pair it returns.
fetch_creds_from_bubble(reply) ==
    IF reply.kind = "transport"
    THEN [exc |-> "ConnectionError", access_token |-> JNone, refresh_token |-> JNone]
    ELSE IF reply.kind = "silent"
    THEN [exc |-> Unanswered(CredsTimeout), access_token |-> JNone,
          refresh_token |-> JNone]
    ELSE IF RaisesForStatus(reply.status)
    THEN [exc |-> "HTTPError", access_token |-> JNone, refresh_token |-> JNone]
    ELSE IF ~reply.isjson
    THEN [exc |-> "JSONDecodeError", access_token |-> JNone, refresh_token |-> JNone]
    ELSE LET data == Get(reply.json, "response", EmptyObj) IN
         [exc |-> "", access_token |-> Get(data, "access_token", JNone),
          refresh_token |-> Get(data, "refresh_token", JNone)]

\* The check of the access token left out.
NoCreds_Never(access_token) == FALSE

\* The check written as `if access_token is None`: an empty token passes.
NoCreds_IsNone(access_token) == access_token = JNone

\* if not access_token
NoCreds(access_token) == ~Truthy(access_token)

\* The check written against 410 (Gone) instead of 404.
HistoryTooOld_Gone(status) == status = 410

\* r.status_code == 404
HistoryTooOld(status) == status = 404

\* gmail_history with its failures swallowed (`except: return None`): a failed
\* read is reported like a stale watermark.
gmail_history_ErrorsAsNone(reply) ==
    IF reply.kind # "http" THEN [exc |-> "", val |-> JNone]
    ELSE IF HistoryTooOld(reply.status) THEN [exc |-> "", val |-> JNone]
    ELSE IF RaisesForStatus(reply.status) THEN [exc |-> "", val |-> JNone]
    ELSE IF ~reply.isjson THEN [exc |-> "", val |-> JNone]
    ELSE [exc |-> "", val |-> reply.json]

\* gmail_history(email, access_token, start_history_id), given Gmail's answer:
\* the exception it raises ("" when none) and the value it returns, None or
\* the response's JSON.
gmail_history(reply) ==
    IF reply.kind = "transport" THEN [exc |-> "ConnectionError", val |-> JNone]
    ELSE IF reply.kind = "silent" THEN [exc |-> Unanswered(HistoryTimeout), val |-> JNone]
    ELSE IF HistoryTooOld(reply.status) THEN [exc |-> "", val |-> JNone]
    ELSE IF RaisesForStatus(reply.status) THEN [exc |-> "HTTPError", val |-> JNone]
    ELSE IF ~reply.isjson THEN [exc |-> "JSONDecodeError", val |-> JNone]
    ELSE [exc |-> "", val |-> reply.json]

\* The inner loop of the extraction: the identifiers of one record's
\* messagesAdded list, in order, those that are missing or empty left out.
\* ExtractAdded_NoCheck is the loop without `if mid`.
RECURSIVE ExtractAdded_NoCheck(_)
ExtractAdded_NoCheck(added) ==
    IF Len(added) = 0 THEN <<>>
    ELSE <<Get(Get(Head(added), "message", EmptyObj), "id", JNone)>>
             \o ExtractAdded_NoCheck(Tail(added))

RECURSIVE ExtractAdded(_)
ExtractAdded(added) ==
    IF Len(added) = 0 THEN <<>>
    ELSE LET mid == Get(Get(Head(added), "message", EmptyObj), "id", JNone) IN
         (IF Truthy(mid) THEN <<mid>> ELSE <<>>) \o ExtractAdded(Tail(added))

\* The outer loop of the extraction, over the change records.
RECURSIVE ExtractRecords(_)
ExtractRecords(records) ==
    IF Len(records) = 0 THEN <<>>
    ELSE ExtractAdded(Get(Head(records), "messagesAdded", <<>>))
             \o ExtractRecords(Tail(records))

\* new_messages, as pubsub_push builds it from the history.
NewMessages(history) == ExtractRecords(Get(history, "history", <<>>))

\* The payload pubsub_push hands to enqueue_to_bubble for one message.
EventPayload(email, history_id, message_id) ==
    [emailAddress |-> email, historyId |-> history_id, messageId |-> message_id]

\* What Cloud Tasks does with a create_task request: it accepts the task, it
\* rejects the request, or it never answers.  main.py gives create_task no
\* timeout, so what an unanswered call does is left to the client library:
\* the call waits ("silent"), or a deadline of the library's own expires
\* ("expired") and DeadlineExceeded, a GoogleAPICallError, is raised.
EnqueueAnswers == {"accepted", "rejected", "silent", "expired"}

\* enqueue_to_bubble(payload): the task it builds and what create_task does
\* with Cloud Tasks' answer: it returns, it raises, or, as the call is given
\* no timeout, it waits for an answer that never comes ("hang").
enqueue_to_bubble(payload, answer) ==
    [exc |-> CASE answer = "accepted" -> ""
               [] answer \in {"rejected", "expired"} -> "GoogleAPICallError"
               [] OTHER -> "hang",
     task |-> [http_method |-> "POST", body |-> payload]]

\* return {"status": "ok", "forwarded_count": len(new_messages)}
\* OkResult_Distinct counts the distinct identifiers, len(set(new_messages)).
OkResult_Distinct(new_messages) ==
    [status |-> "ok",
     forwarded_count |-> Cardinality({new_messages[k] : k \in 1..Len(new_messages)})]

OkResult(new_messages) == [status |-> "ok", forwarded_count |-> Len(new_messages)]

-----------------------------------------------------------------------------
\* The state: for each invocation of pubsub_push, where it is, its local
\* variables, what it answered, and the outbound calls it made.

VARIABLES
    pc,            \* "idle" (request.json() not yet returned), "creds",
                   \* "history", "dispatch", "done" (returned), "raised",
                   \* "hung" (inside a call that never returns)
    envelope,      \* envelope
    email,         \* email
    history_id,    \* history_id
    access_token,  \* access_token
    refresh_token, \* refresh_token
    history,       \* history
    new_messages,  \* new_messages
    sent,          \* iterations of the fan-out loop completed
    result,        \* the dict returned
    exc,           \* the exception that left the handler, "" when none
    calls,         \* the outbound calls made, in order
    tasks          \* the tasks Cloud Tasks accepted from this invocation

vars == <<pc, envelope, email, history_id, access_token, refresh_token, history,
          new_messages, sent, result, exc, calls, tasks>>

Init ==
    /\ pc = [i \in Invs |-> "idle"]
    /\ envelope = [i \in Invs |-> EmptyObj]
    /\ email = [i \in Invs |-> Unbound]
    /\ history_id = [i \in Invs |-> Unbound]
    /\ access_token = [i \in Invs |-> Unbound]
    /\ refresh_token = [i \in Invs |-> Unbound]
    /\ history = [i \in Invs |-> Unbound]
    /\ new_messages = [i \in Invs |-> <<>>]
    /\ sent = [i \in Invs |-> 0]
    /\ result = [i \in Invs |-> EmptyObj]
    /\ exc = [i \in Invs |-> ""]
    /\ calls = [i \in Invs |-> <<>>]
    /\ tasks = [i \in Invs |-> <<>>]

\* The handler is a coroutine that awaits only request.json(); the calls it
\* makes afterwards (requests.post, requests.get, create_task) block the event
\* loop, so no other invocation runs between its resumption and its end.
EventLoopFree(i) == \A j \in Invs \ {i} : pc[j] = "idle"

\* An outbound call: the function, what it was given, and what the service
\* answered.
Call(fn, args, reply) == [fn |-> fn, args |-> args, reply |-> reply]

\* The calls of `fn` among a sequence of calls.
CallsOf(cs, fn) == SelectSeq(cs, LAMBDA c : c.fn = fn)

\* request.json() returns one of the envelopes `envs` and the handler runs to
\* its first outbound call, or returns or raises before it.
Receive(i, envs) ==
    /\ pc[i] = "idle"
    /\ \E e \in envs :
         LET r == Intake(e) IN
         /\ envelope' = [envelope EXCEPT ![i] = e]
         /\ email' = [email EXCEPT ![i] =
                IF HasPayload(e) THEN EmailOf(PayloadOf(e)) ELSE Unbound]
         /\ history_id' = [history_id EXCEPT ![i] =
                IF HasPayload(e) THEN HistoryIdOf(PayloadOf(e)) ELSE Unbound]
         /\ pc' = [pc EXCEPT ![i] = r.pc]
         /\ result' = [result EXCEPT ![i] = r.result]
         /\ exc' = [exc EXCEPT ![i] = r.exc]
    /\ UNCHANGED <<access_token, refresh_token, history, new_messages, sent, calls, tasks>>

\* The handler is resumed when the event loop is free.
Start(i) == EventLoopFree(i) /\ Receive(i, Envelopes)

\* access_token, refresh_token = fetch_creds_from_bubble(email), and the check
\* of the access token, Bubble answering with one of `replies`.
FetchCredsFrom(i, replies) ==
    /\ pc[i] = "creds"
    /\ \E reply \in replies :
         LET r == fetch_creds_from_bubble(reply) IN
         /\ calls' = [calls EXCEPT ![i] =
                Append(@, Call("fetch_creds_from_bubble",
                               [json |-> [emailAddress |-> email[i]],
                                timeout |-> CredsTimeout],
                               reply))]
         /\ IF r.exc # ""
            THEN /\ pc' = [pc EXCEPT ![i] = IF r.exc = "hang" THEN "hung" ELSE "raised"]
                 /\ exc' = [exc EXCEPT ![i] = IF r.exc = "hang" THEN "" ELSE r.exc]
                 /\ UNCHANGED <<access_token, refresh_token, result>>
            ELSE /\ access_token' = [access_token EXCEPT ![i] = r.access_token]
                 /\ refresh_token' = [refresh_token EXCEPT ![i] = r.refresh_token]
                 /\ IF NoCreds(r.access_token)
                    THEN /\ pc' = [pc EXCEPT ![i] = "done"]
                         /\ result' = [result EXCEPT ![i] = [status |-> "no-gmail-creds"]]
                    ELSE /\ pc' = [pc EXCEPT ![i] = "history"]
                         /\ UNCHANGED result
                 /\ UNCHANGED exc
    /\ UNCHANGED <<envelope, email, history_id, history, new_messages, sent, tasks>>

\* The credential lookup with a retry loop around it: after a transport
\* error the lookup is made again.
FetchCreds_Retry(i) ==
    \/ FetchCredsFrom(i, CredReplies \ {TransportError})
    \/ /\ pc[i] = "creds"
       /\ calls' = [calls EXCEPT ![i] =
              Append(@, Call("fetch_creds_from_bubble",
                             [json |-> [emailAddress |-> email[i]],
                              timeout |-> CredsTimeout],
                             TransportError))]
       /\ UNCHANGED <<pc, envelope, email, history_id, access_token, refresh_token,
                      history, new_messages, sent, result, exc, tasks>>

FetchCreds(i) == FetchCredsFrom(i, CredReplies)

\* history = gmail_history(email, access_token, history_id), the check for
\* None, and the extraction of new_messages, Gmail answering with one of
\* `replies`.
GmailHistoryFrom(i, replies) ==
    /\ pc[i] = "history"
    /\ \E reply \in replies :
         LET r == gmail_history(reply) IN
         /\ calls' = [calls EXCEPT ![i] =
                Append(@, Call("gmail_history",
                               [email |-> email[i], access_token |-> access_token[i],
                                startHistoryId |-> history_id[i],
                                historyTypes |-> "messageAdded",
                                timeout |-> HistoryTimeout],
                               reply))]
         /\ IF r.exc # ""
            THEN /\ pc' = [pc EXCEPT ![i] = IF r.exc = "hang" THEN "hung" ELSE "raised"]
                 /\ exc' = [exc EXCEPT ![i] = IF r.exc = "hang" THEN "" ELSE r.exc]
                 /\ UNCHANGED <<history, new_messages, result>>
            ELSE /\ history' = [history EXCEPT ![i] = r.val]
                 /\ IF r.val = JNone
                    THEN /\ pc' = [pc EXCEPT ![i] = "done"]
                         /\ result' = [result EXCEPT ![i] = [status |-> "history-too-old"]]
                         /\ UNCHANGED new_messages
                    ELSE /\ pc' = [pc EXCEPT ![i] = "dispatch"]
                         /\ new_messages' = [new_messages EXCEPT ![i] = NewMessages(r.val)]
                         /\ UNCHANGED result
                 /\ UNCHANGED exc
    /\ UNCHANGED <<envelope, email, history_id, access_token, refresh_token, sent, tasks>>

GmailHistory(i) == GmailHistoryFrom(i, HistoryReplies)

\* One iteration of the fan-out loop: enqueue_to_bubble for the next message.
\* Enqueue_SharedEmail is the loop with `email` a module-level variable that
\* every invocation assigns: it reads the email of any invocation in progress.
\* An exception of create_task leaves the loop and the handler; a create_task
\* that never returns leaves the handler inside the call.
Enqueue_SharedEmail(i) ==
    /\ pc[i] = "dispatch"
    /\ sent[i] < Len(new_messages[i])
    /\ \E answer \in EnqueueAnswers, j \in Invs :
         LET payload == EventPayload(email[j], history_id[i], new_messages[i][sent[i] + 1])
             r == enqueue_to_bubble(payload, answer)
         IN
         /\ email[j] # Unbound
         /\ calls' = [calls EXCEPT ![i] =
                Append(@, Call("enqueue_to_bubble", payload, [answer |-> answer]))]
         /\ IF r.exc # ""
            THEN /\ pc' = [pc EXCEPT ![i] = IF r.exc = "hang" THEN "hung" ELSE "raised"]
                 /\ exc' = [exc EXCEPT ![i] = IF r.exc = "hang" THEN "" ELSE r.exc]
                 /\ UNCHANGED <<sent, tasks>>
            ELSE /\ tasks' = [tasks EXCEPT ![i] = Append(@, r.task)]
                 /\ sent' = [sent EXCEPT ![i] = @ + 1]
                 /\ UNCHANGED <<pc, exc>>
    /\ UNCHANGED <<envelope, email, history_id, access_token, refresh_token, history,
                   new_messages, result>>

Enqueue(i) ==
    /\ pc[i] = "dispatch"
    /\ sent[i] < Len(new_messages[i])
    /\ \E answer \in EnqueueAnswers :
         LET payload == EventPayload(email[i], history_id[i], new_messages[i][sent[i] + 1])
             r == enqueue_to_bubble(payload, answer)
         IN
         /\ calls' = [calls EXCEPT ![i] =
                Append(@, Call("enqueue_to_bubble", payload, [answer |-> answer]))]
         /\ IF r.exc # ""
            THEN /\ pc' = [pc EXCEPT ![i] = IF r.exc = "hang" THEN "hung" ELSE "raised"]
                 /\ exc' = [exc EXCEPT ![i] = IF r.exc = "hang" THEN "" ELSE r.exc]
                 /\ UNCHANGED <<sent, tasks>>
            ELSE /\ tasks' = [tasks EXCEPT ![i] = Append(@, r.task)]
                 /\ sent' = [sent EXCEPT ![i] = @ + 1]
                 /\ UNCHANGED <<pc, exc>>
    /\ UNCHANGED <<envelope, email, history_id, access_token, refresh_token, history,
                   new_messages, result>>

\* The loop is over: the handler returns the count.
Finish(i) ==
    /\ pc[i] = "dispatch"
    /\ sent[i] = Len(new_messages[i])
    /\ pc' = [pc EXCEPT ![i] = "done"]
    /\ result' = [result EXCEPT ![i] = OkResult(new_messages[i])]
    /\ UNCHANGED <<envelope, email, history_id, access_token, refresh_token, history,
                   new_messages, sent, exc, calls, tasks>>

\* The response has been sent (the dict, or the server's error response for an
\* exception) and the invocation's locals are gone; the slot takes the next
\* request.
Return(i) ==
    /\ pc[i] \in {"done", "raised"}
    /\ pc' = [pc EXCEPT ![i] = "idle"]
    /\ envelope' = [envelope EXCEPT ![i] = EmptyObj]
    /\ email' = [email EXCEPT ![i] = Unbound]
    /\ history_id' = [history_id EXCEPT ![i] = Unbound]
    /\ access_token' = [access_token EXCEPT ![i] = Unbound]
    /\ refresh_token' = [refresh_token EXCEPT ![i] = Unbound]
    /\ history' = [history EXCEPT ![i] = Unbound]
    /\ new_messages' = [new_messages EXCEPT ![i] = <<>>]
    /\ sent' = [sent EXCEPT ![i] = 0]
    /\ result' = [result EXCEPT ![i] = EmptyObj]
    /\ exc' = [exc EXCEPT ![i] = ""]
    /\ calls' = [calls EXCEPT ![i] = <<>>]
    /\ tasks' = [tasks EXCEPT ![i] = <<>>]

Next ==
    \E i \in Invs :
        \/ Start(i)
        \/ FetchCreds(i)
        \/ GmailHistory(i)
        \/ Enqueue(i)
        \/ Finish(i)
        \/ Return(i)

Spec == Init /\ [][Next]_vars

-----------------------------------------------------------------------------
\* The service run by several workers: the invocations are in different
\* processes (uvicorn workers, Cloud Run instances) and their steps interleave
\* in any order.  Each invocation draws its inputs from a few of the envelopes
\* and answers above: two notifications of different mailboxes, one without a
\* message and one with malformed data; a failed, a refused and two successful
\* credential lookups; a stale, a failed, an empty and a two-message history.

ConcEnvelopes ==
    { EmptyObj,
      [message |-> [data |-> "abc"]],
      [message |-> [data |-> "eyJlbWFpbEFkZHJlc3MiOiJhQHguY29tIiwiaGlzdG9yeUlkIjoxMDB9"]],
      [message |-> [data |-> "eyJlbWFpbEFkZHJlc3MiOiJiQHguY29tIiwiaGlzdG9yeUlkIjoiNyJ9"]] }

ConcCredReplies ==
    { TransportError,
      HttpReply(200, TRUE, [response |-> EmptyObj]),
      HttpReply(200, TRUE, [response |-> [access_token |-> JStr("tok")]]),
      HttpReply(200, TRUE, [response |-> [access_token |-> JStr("tok2")]]) }

ConcHistoryReplies ==
    { HttpReply(404, TRUE, EmptyObj),
      HttpReply(500, FALSE, EmptyObj),
      HttpReply(200, TRUE, EmptyObj),
      HttpReply(200, TRUE, Window(<<Record(<<Added("m1")>>), Record(<<Added("m2")>>)>>)) }

NextConc ==
    \E i \in Invs :
        \/ Receive(i, ConcEnvelopes)
        \/ FetchCredsFrom(i, ConcCredReplies)
        \/ GmailHistoryFrom(i, ConcHistoryReplies)
        \/ Enqueue(i)
        \/ Finish(i)
        \/ Return(i)

SpecConc == Init /\ [][NextConc]_vars

-----------------------------------------------------------------------------
\* Vocabulary of the properties.

Range(s) == {s[k] : k \in 1..Len(s)}

\* The invocation has ended: it returned a dict or an exception left it.
Ended(i) == pc[i] \in {"done", "raised"}

\* The change-log read returned a history window, so the invocation reached
\* extraction and dispatch.
ReachedDispatch(i) == history[i] # Unbound /\ history[i] # JNone

\* The calls of enqueue_to_bubble the invocation made.
EnqueueCalls(i) == CallsOf(calls[i], "enqueue_to_bubble")

\* The non-empty message identifiers that occur in a history window.
AddedIn(h) ==
    { mid \in UNION { { Get(Get(a, "message", EmptyObj), "id", JNone) :
                            a \in Range(Get(r, "messagesAdded", <<>>)) } :
                      r \in Range(Get(h, "history", <<>>)) } :
        Truthy(mid) }

\* How many of the accepted tasks carry the message identifier.
TimesHandedOff(i, mid) ==
    Cardinality({k \in 1..Len(tasks[i]) : tasks[i][k].body.messageId = mid})

NoDuplicates(s) == \A j, k \in 1..Len(s) : j # k => s[j] # s[k]

\* s without the later occurrences of its elements.
RECURSIVE FirstOccurrences(_)
FirstOccurrences(s) ==
    IF Len(s) = 0 THEN <<>>
    ELSE LET front == FirstOccurrences(SubSeq(s, 1, Len(s) - 1)) IN
         IF s[Len(s)] \in Range(front) THEN front ELSE Append(front, s[Len(s)])

\* The credential lookup failed: no answer, a 4xx/5xx answer, or a body that
\* is not JSON.
LookupFailed(reply) ==
    reply.kind = "transport" \/ RaisesForStatus(reply.status) \/ ~reply.isjson

-----------------------------------------------------------------------------
\* C1: in every invocation that completes dispatch, each message identifier
\* added in the history window is handed to the queue exactly once, also when
\* it occurs in several change records.
C1_HandedOffExactlyOnce ==
    \A i \in Invs :
        (pc[i] = "done" /\ ReachedDispatch(i)) =>
            \A mid \in AddedIn(history[i]) : TimesHandedOff(i, mid) = 1

\* C2: the extracted list has no duplicate identifier and is the window's
\* identifiers in order of first occurrence.
C2_ExtractedDeduplicated ==
    \A i \in Invs :
        ReachedDispatch(i) =>
            /\ NoDuplicates(new_messages[i])
            /\ new_messages[i] = FirstOccurrences(NewMessages(history[i]))

\* C3: when an invocation that reached dispatch has ended, enqueue_to_bubble
\* has been called for every extracted identifier, whatever failed before.
C3_AllDispatchesAttempted ==
    \A i \in Invs :
        (Ended(i) /\ ReachedDispatch(i)) =>
            Len(EnqueueCalls(i)) = Len(new_messages[i])

\* C4: an invocation that reached dispatch ends in the success state and
\* reports as forwarded_count the number of dispatches that were accepted.
C4_ReportsAcceptedCount ==
    \A i \in Invs :
        (Ended(i) /\ ReachedDispatch(i)) =>
            /\ pc[i] = "done"
            /\ result[i] = [status |-> "ok", forwarded_count |-> Len(tasks[i])]

\* C5: for an envelope without a message field the handler returns "ignored"
\* and makes no outbound call.
C5_NoMessageIgnored ==
    \A i \in Invs :
        (pc[i] # "idle" /\ ~Has(envelope[i], "message")) =>
            /\ pc[i] = "done"
            /\ result[i] = [status |-> "ignored"]
            /\ calls[i] = <<>>
            /\ tasks[i] = <<>>

C5_Witness ==
    \E i \in Invs : pc[i] = "done" /\ ~Has(envelope[i], "message")

\* The message of the envelope carries no payload: data is missing or empty.
CarriesNoPayload(e) ==
    /\ Has(e, "message")
    /\ IF Has(e["message"], "data") THEN e["message"]["data"] = "" ELSE TRUE

\* C6: for an envelope whose message carries no payload, a present and empty
\* message.data included, the handler returns "missing-data" and makes no
\* outbound call.
C6_NoPayloadMissingData ==
    \A i \in Invs :
        (pc[i] # "idle" /\ CarriesNoPayload(envelope[i])) =>
            /\ pc[i] = "done"
            /\ result[i] = [status |-> "missing-data"]
            /\ calls[i] = <<>>

\* C7: for a decoded payload that lacks emailAddress or lacks historyId the
\* handler ends in "missing-fields" and makes no outbound call.
C7_MissingFieldTerminates ==
    \A i \in Invs :
        (/\ pc[i] # "idle"
         /\ HasPayload(envelope[i])
         /\ \/ ~Has(PayloadOf(envelope[i]), "emailAddress")
            \/ ~Has(PayloadOf(envelope[i]), "historyId")) =>
            /\ pc[i] = "done"
            /\ result[i] = [status |-> "missing-fields"]
            /\ calls[i] = <<>>

\* The credential lookup returned without an access token.
LookupAbsent(i) == access_token[i] # Unbound /\ ~Truthy(access_token[i])

\* C8: when the credential lookup returns no access token the handler
\* returns "no-gmail-creds"; the lookup is the only outbound call it made:
\* no change-log read, no dispatch.
C8_AbsentCredsStop ==
    \A i \in Invs :
        LookupAbsent(i) =>
            /\ pc[i] = "done"
            /\ result[i] = [status |-> "no-gmail-creds"]
            /\ Len(calls[i]) = 1
            /\ calls[i][1].fn = "fetch_creds_from_bubble"
            /\ tasks[i] = <<>>

C8_Witness ==
    \E i \in Invs :
        /\ LookupAbsent(i)
        /\ pc[i] = "done"
        /\ HasPayload(envelope[i])
        /\ Has(PayloadOf(envelope[i]), "emailAddress")
        /\ Has(PayloadOf(envelope[i]), "historyId")

\* C9: when the credential lookup fails (transport error, non-2xx answer,
\* malformed body) the invocation ends in the no-credentials state, not in
\* an error.
C9_FailedLookupIsAbsent ==
    \A i \in Invs :
        (/\ Len(calls[i]) > 0
         /\ calls[i][1].fn = "fetch_creds_from_bubble"
         /\ LookupFailed(calls[i][1].reply)) =>
            /\ pc[i] = "done"
            /\ result[i] = [status |-> "no-gmail-creds"]

\* Gmail answered the change-log read of the invocation with 404.
AnsweredNotFound(i) ==
    \E k \in 1..Len(calls[i]) :
        /\ calls[i][k].fn = "gmail_history"
        /\ calls[i][k].reply.kind = "http"
        /\ calls[i][k].reply.status = 404

\* C10: when Gmail answers the change-log read with not-found the handler
\* returns "history-too-old" and attempts no dispatch.
C10_StaleStops ==
    \A i \in Invs :
        AnsweredNotFound(i) =>
            /\ pc[i] = "done"
            /\ result[i] = [status |-> "history-too-old"]
            /\ EnqueueCalls(i) = <<>>
            /\ tasks[i] = <<>>

C10_Witness ==
    \E i \in Invs : AnsweredNotFound(i) /\ pc[i] = "done"

\* C11: every invocation that ends, ends with a structured status response:
\* no error (malformed base64 or JSON in message.data, a failed outbound call)
\* leaves the handler unhandled.
C11_AlwaysStatusResponse ==
    \A i \in Invs :
        Ended(i) => (pc[i] = "done" /\ Has(result[i], "status"))

\* The exceptions a failed requests call raises.
RequestExceptions == {"ConnectionError", "Timeout", "HTTPError", "JSONDecodeError"}

\* The invocation is in the state the handler is left in when gmail_history
\* raises: an unhandled exception, no status body, nothing extracted and
\* nothing dispatched.
AbortedInHistory(i) ==
    /\ pc[i] = "raised"
    /\ exc[i] \in RequestExceptions
    /\ result[i] = EmptyObj
    /\ history[i] = Unbound
    /\ EnqueueCalls(i) = <<>>
    /\ tasks[i] = <<>>

\* The invocation has gone on to extraction and dispatch with the body `json`
\* as its history.
ProceededWith(i, json) ==
    /\ history[i] = json
    /\ new_messages[i] = NewMessages(json)
    /\ pc[i] \in {"dispatch", "done", "raised", "hung"}
    /\ pc[i] = "done" => result[i].status = "ok"
    /\ pc[i] = "raised" => exc[i] = "GoogleAPICallError"

CredsSucceeded(reply) ==
    /\ reply.kind = "http"
    /\ reply.status < 400
    /\ reply.isjson
    /\ Truthy(Get(Get(reply.json, "response", EmptyObj), "access_token", JNone))

\* Gmail's answer carries a history.
HistorySucceeded(reply) ==
    /\ reply.kind = "http"
    /\ reply.status < 400
    /\ reply.isjson

\* C13: the stages of an invocation are strictly ordered.  The credential
\* lookup is the first outbound call; the change-log read is the second, made
\* only after a lookup that gave a non-empty access token, and with that
\* token; a dispatch is made only after both, the change-log read having
\* succeeded.
C13_StagesInOrder ==
    \A i \in Invs : \A k \in 1..Len(calls[i]) :
        LET c == calls[i][k] IN
        /\ c.fn = "fetch_creds_from_bubble" => k = 1
        /\ c.fn = "gmail_history" =>
               /\ k = 2
               /\ calls[i][1].fn = "fetch_creds_from_bubble"
               /\ CredsSucceeded(calls[i][1].reply)
               /\ Truthy(c.args.access_token)
               /\ c.args.access_token = access_token[i]
        /\ c.fn = "enqueue_to_bubble" =>
               /\ k >= 3
               /\ calls[i][1].fn = "fetch_creds_from_bubble"
               /\ CredsSucceeded(calls[i][1].reply)
               /\ calls[i][2].fn = "gmail_history"
               /\ HistorySucceeded(calls[i][2].reply)
               /\ ReachedDispatch(i)

C13_Witness ==
    \E i \in Invs :
        /\ Len(calls[i]) >= 3
        /\ calls[i][3].fn = "enqueue_to_bubble"

\* C14: no retry inside an invocation.  The credential lookup and the
\* change-log read are each issued at most once, whatever their outcome; there
\* is at most one enqueue per extracted identifier, and a dispatch that failed
\* is the last call the handler makes: it is not retried.
C14_NoRetry ==
    \A i \in Invs :
        /\ Len(CallsOf(calls[i], "fetch_creds_from_bubble")) <= 1
        /\ Len(CallsOf(calls[i], "gmail_history")) <= 1
        /\ Len(EnqueueCalls(i)) <= Len(new_messages[i])
        /\ \A k \in 1..Len(calls[i]) :
               (/\ calls[i][k].fn = "enqueue_to_bubble"
                /\ calls[i][k].reply.answer # "accepted") => k = Len(calls[i])

\* An invocation has ended by a dispatch that failed, with identifiers left to
\* dispatch.
C14_Witness ==
    \E i \in Invs :
        /\ pc[i] = "raised"
        /\ Len(calls[i]) = 3
        /\ calls[i][3].fn = "enqueue_to_bubble"
        /\ calls[i][3].reply.answer = "rejected"
        /\ Len(new_messages[i]) >= 2

\* The positions <<record, sub-record>> of a history window, and the message
\* identifier at a position.
SubRecordsOf(h) ==
    LET records == Get(h, "history", <<>>) IN
    UNION { { <<r, a>> : a \in 1..Len(Get(records[r], "messagesAdded", <<>>)) } :
              r \in 1..Len(records) }
IdAt(h, pos) ==
    Get(Get(Get(h, "history", <<>>)[pos[1]].messagesAdded[pos[2]],
            "message", EmptyObj), "id", JNone)

Submitted(i) == [k \in 1..Len(EnqueueCalls(i)) |-> EnqueueCalls(i)[k].args]
Wrapped(i) ==
    LET payload == PayloadOf(envelope[i]) IN
    [k \in 1..Len(new_messages[i]) |->
        [emailAddress |-> Get(payload, "emailAddress", JNone),
         historyId |-> JStr(Str(Get(payload, "historyId", JNone))),
         messageId |-> new_messages[i][k]]]

\* C16: the events an invocation submits are exactly the extracted
\* identifiers, in extraction order, each wrapped with the notification's
\* emailAddress and its historyId in string form.
C16_SubmittedIsExtracted ==
    \A i \in Invs :
        (Ended(i) /\ ReachedDispatch(i)) => Submitted(i) = Wrapped(i)

\* What the fan-out loop does keep: the submitted events are the first ones of
\* the wrapped extraction, all of them when the handler returns.
C16_SubmittedIsPrefix ==
    \A i \in Invs :
        ReachedDispatch(i) =>
            /\ Len(Submitted(i)) <= Len(Wrapped(i))
            /\ Submitted(i) = SubSeq(Wrapped(i), 1, Len(Submitted(i)))
            /\ pc[i] = "done" => Submitted(i) = Wrapped(i)

\* The next step of the handler in invocation i.
Step(i) == FetchCreds(i) \/ GmailHistory(i) \/ Enqueue(i) \/ Finish(i)

\* The outbound call got no answer.
NoAnswer(c) ==
    IF c.fn = "enqueue_to_bubble" THEN c.reply.answer \in {"silent", "expired"}
    ELSE c.reply.kind = "silent"

\* C17: every invocation concludes even if an external system never answers.
\* An invocation that has begun has ended or can take its next step, and a
\* call that got no answer has ended the invocation with the error of that
\* call.
C17_AlwaysConcludes ==
    \A i \in Invs :
        /\ pc[i] # "idle" => (Ended(i) \/ ENABLED Step(i))
        /\ \A k \in 1..Len(calls[i]) :
               NoAnswer(calls[i][k]) => (pc[i] = "raised" /\ k = Len(calls[i]))

\* pubsub_push as a function of what one invocation is given: the envelope e
\* and the answers rs its outbound calls have got so far, in order.  It yields
\* where the handler then is, what it returned or raised, the calls it made,
\* the tasks it created, and how many identifiers it has still to dispatch.
Outcome(at, res, exception, made, created, togo) ==
    [pc |-> at, result |-> res, exc |-> exception, calls |-> made,
     tasks |-> created, left |-> togo]
Failed(exception, made, created) ==
    Outcome(IF exception = "hang" THEN "hung" ELSE "raised", EmptyObj,
            IF exception = "hang" THEN "" ELSE exception, made, created, 0)
Handler(e, rs) ==
    LET r0 == Intake(e)
        em == EmailOf(PayloadOf(e))
        hid == HistoryIdOf(PayloadOf(e))
        c == fetch_creds_from_bubble(rs[1])
        credsCall == Call("fetch_creds_from_bubble",
                          [json |-> [emailAddress |-> em], timeout |-> CredsTimeout],
                          rs[1])
        h == gmail_history(rs[2])
        historyCall == Call("gmail_history",
                            [email |-> em, access_token |-> c.access_token,
                             startHistoryId |-> hid, historyTypes |-> "messageAdded",
                             timeout |-> HistoryTimeout],
                            rs[2])
        new == NewMessages(h.val)
        event(k) == EventPayload(em, hid, new[k])
        enqueued(k) == enqueue_to_bubble(event(k), rs[2 + k].answer)
        answered == IF Len(rs) - 2 < Len(new) THEN Len(rs) - 2 ELSE Len(new)
        failed == { k \in 1..answered : enqueued(k).exc # "" }
        last == IF failed = {} THEN answered
                ELSE CHOOSE k \in failed : \A j \in failed : k <= j
        enqueueCalls == [k \in 1..last |-> Call("enqueue_to_bubble", event(k), rs[2 + k])]
        created == [k \in 1..(IF failed = {} THEN last ELSE last - 1) |-> enqueued(k).task]
    IN
    IF r0.pc # "creds" THEN Outcome(r0.pc, r0.result, r0.exc, <<>>, <<>>, 0)
    ELSE IF Len(rs) = 0 THEN Outcome("creds", EmptyObj, "", <<>>, <<>>, 0)
    ELSE IF c.exc # "" THEN Failed(c.exc, <<credsCall>>, <<>>)
    ELSE IF NoCreds(c.access_token)
    THEN Outcome("done", [status |-> "no-gmail-creds"], "", <<credsCall>>, <<>>, 0)
    ELSE IF Len(rs) = 1 THEN Outcome("history", EmptyObj, "", <<credsCall>>, <<>>, 0)
    ELSE IF h.exc # "" THEN Failed(h.exc, <<credsCall, historyCall>>, <<>>)
    ELSE IF h.val = JNone
    THEN Outcome("done", [status |-> "history-too-old"], "",
                 <<credsCall, historyCall>>, <<>>, 0)
    ELSE IF failed # {}
    THEN Failed(enqueued(last).exc, <<credsCall, historyCall>> \o enqueueCalls, created)
    ELSE Outcome("dispatch", EmptyObj, "", <<credsCall, historyCall>> \o enqueueCalls,
                 created, Len(new) - last)

\* The answers the invocation's own outbound calls have got.
RepliesOf(i) == [k \in 1..Len(calls[i]) |-> calls[i][k].reply]

\* C18: invocations are independent under any interleaving.  What each
\* invocation has done, returned or raised is what pubsub_push does with the
\* invocation's own envelope and the answers to its own calls, whatever the
\* other invocations were given and whether they failed.
C18_Independent ==
    \A i \in Invs :
        pc[i] # "idle" =>
            LET o == Handler(envelope[i], RepliesOf(i)) IN
            /\ calls[i] = o.calls
            /\ tasks[i] = o.tasks
            /\ exc[i] = o.exc
            /\ IF pc[i] = "done" /\ o.pc = "dispatch"
               THEN o.left = 0 /\ result[i] = OkResult(o.tasks)
               ELSE pc[i] = o.pc /\ result[i] = o.result

\* Two invocations of different mailboxes are in progress at once: one is in
\* the middle of its dispatch loop while the other has failed.
C18_Witness ==
    \E i, j \in Invs :
        /\ pc[i] = "dispatch" /\ sent[i] = 1 /\ Len(new_messages[i]) = 2
        /\ pc[j] = "raised" /\ Len(calls[j]) >= 1
        /\ email[i] # email[j]

\* C19: whenever pubsub_push returns {"status": "ok", "forwarded_count": c},
\* c is the number of enqueue calls the invocation made, all of them accepted,
\* which is the number of extracted identifiers; a window without any
\* messageAdded record gives ok with forwarded_count 0 and no enqueue call.
C19_CountIsEnqueued ==
    \A i \in Invs :
        (pc[i] = "done" /\ result[i].status = "ok") =>
            /\ result[i].forwarded_count = Len(EnqueueCalls(i))
            /\ \A k \in 1..Len(EnqueueCalls(i)) :
                   EnqueueCalls(i)[k].reply.answer = "accepted"
            /\ result[i].forwarded_count = Len(tasks[i])
            /\ result[i].forwarded_count = Len(new_messages[i])
            /\ SubRecordsOf(history[i]) = {} =>
                   (result[i].forwarded_count = 0 /\ EnqueueCalls(i) = <<>>)

\* An invocation has returned ok after dispatching two or more identifiers.
C19_Witness ==
    \E i \in Invs :
        /\ pc[i] = "done"
        /\ result[i].status = "ok"
        /\ result[i].forwarded_count >= 2
        /\ Len(EnqueueCalls(i)) >= 2

====
